---- MODULE Spec2Model ----
(***************************************************************************)
(* A model of the esquivias/interpreter front end: the lexer               *)
(* (lexer/lexer.go), the token table (token/token.go, final snapshot) and  *)
(* the Pratt parser (parser/parser.go) with the AST renderer (ast/ast.go). *)
(*                                                                         *)
(* Text is a sequence of bytes; a byte is written as a one-character       *)
(* string, and the byte 0 as NUL.  Go indexes strings from 0, TLA+         *)
(* sequences from 1: input[i] in the source is l.input[i + 1] here.        *)
(***************************************************************************)
EXTENDS Integers, Sequences, FiniteSets, TLC

VARIABLES
    l,        \* the Lexer driven directly by repeated NextToken calls
    toks,     \* the tokens those calls returned, in order
    p,        \* the Parser (its Lexer, curToken, peekToken, errors)
    program,  \* ParseProgram's local `program` (its Statements)
    stmt,     \* ParseProgram's local `stmt`, or the statement under construction
    pc,       \* the position of the control inside ParseProgram
    phase,    \* 1: parsing the given text, 2: parsing the rendering of phase 1
    first     \* the rendering of the Program phase 1 returned

vars == <<l, toks, p, program, stmt, pc, phase, first>>

----------------------------------------------------------------------------
(* token/token.go (final snapshot): the token types.                       *)

EOF == "EOF"
ILLEGAL == "ILLEGAL"
IDENT == "IDENT"
INT == "INT"
ASSIGN == "="
ASTERISK == "*"
BANG == "!"
EQ == "=="
GT == ">"
LT == "<"
MINUS == "-"
NEQ == "!="
PLUS == "+"
SLASH == "/"
COMMA == ","
LBRACE == "{"
LPAREN == "("
RBRACE == "}"
RPAREN == ")"
SEMICOLON == ";"
ELSE_ == "ELSE"
FALSE_ == "FALSE"
FUNCTION == "FUNCTION"
IF_ == "IF"
LET_ == "LET"
RETURN == "RETURN"
TRUE_ == "TRUE"

\* var keywords = map[string]Type{...}
keywords ==
    (<<"e", "l", "s", "e">> :> ELSE_) @@
    (<<"f", "a", "l", "s", "e">> :> FALSE_) @@
    (<<"f", "n">> :> FUNCTION) @@
    (<<"i", "f">> :> IF_) @@
    (<<"l", "e", "t">> :> LET_) @@
    (<<"r", "e", "t", "u", "r", "n">> :> RETURN) @@
    (<<"t", "r", "u", "e">> :> TRUE_)

\* func LookupIdent(ident string) Type
LookupIdent(ident) ==
    IF ident \in DOMAIN keywords THEN keywords[ident] ELSE IDENT

----------------------------------------------------------------------------
(* lexer/lexer.go                                                          *)

NUL == "NUL"

Token(type, literal) == [Type |-> type, Literal |-> literal]

\* func New(input string) *Lexer, before its readChar call
ZeroLexer(input) ==
    [input |-> input, position |-> 0, readPosition |-> 0, ch |-> NUL]

\* func (l *Lexer) readChar()
readChar(lx) ==
    [lx EXCEPT
        !.ch = IF lx.readPosition >= Len(lx.input)
               THEN NUL
               ELSE lx.input[lx.readPosition + 1],
        !.position = lx.readPosition,
        !.readPosition = lx.readPosition + 1]

\* func New(input string) *Lexer
NewLexer(input) == readChar(ZeroLexer(input))

\* func (l *Lexer) peekChar() byte
peekChar(lx) ==
    IF lx.readPosition >= Len(lx.input)
    THEN NUL
    ELSE lx.input[lx.readPosition + 1]

\* func newToken(tokenType token.Type, ch byte) token.Token
newToken(tokenType, ch) == Token(tokenType, <<ch>>)

\* func isLetter(ch byte) bool
isLetter(ch) ==
    ch \in {"a", "b", "c", "d", "e", "f", "g", "h", "i", "j", "k", "l", "m",
            "n", "o", "p", "q", "r", "s", "t", "u", "v", "w", "x", "y", "z",
            "A", "B", "C", "D", "E", "F", "G", "H", "I", "J", "K", "L", "M",
            "N", "O", "P", "Q", "R", "S", "T", "U", "V", "W", "X", "Y", "Z",
            "_"}

\* func isDigit(ch byte) bool
isDigit(ch) ==
    ch \in {"0", "1", "2", "3", "4", "5", "6", "7", "8", "9"}

\* func (l *Lexer) skipWhitespace()
RECURSIVE skipWhitespace(_)
skipWhitespace(lx) ==
    IF lx.ch = " " \/ lx.ch = "\t" \/ lx.ch = "\n" \/ lx.ch = "\r"
    THEN skipWhitespace(readChar(lx))
    ELSE lx

\* the loop of readIdentifier: for isLetter(l.ch) { l.readChar() }
RECURSIVE whileLetter(_)
whileLetter(lx) ==
    IF isLetter(lx.ch) THEN whileLetter(readChar(lx)) ELSE lx

\* the loop of readNumber: for isDigit(l.ch) { l.readChar() }
RECURSIVE whileDigit(_)
whileDigit(lx) ==
    IF isDigit(lx.ch) THEN whileDigit(readChar(lx)) ELSE lx

\* input[position:l.position]
Slice(input, from, to) == SubSeq(input, from + 1, to)

\* func (l *Lexer) readIdentifier() string: the string and the lexer after
readIdentifier(lx) ==
    LET l1 == whileLetter(lx)
    IN  [lit |-> Slice(lx.input, lx.position, l1.position), l |-> l1]

\* func (l *Lexer) readNumber() string: the string and the lexer after
readNumber(lx) ==
    LET l1 == whileDigit(lx)
    IN  [lit |-> Slice(lx.input, lx.position, l1.position), l |-> l1]

\* The two-character operator branch of NextToken ('=' and '!').
TwoCharMissingAdvance(lx, two, one) ==
    IF peekChar(lx) = "="
    THEN LET l1 == readChar(lx)
         IN  [tok |-> Token(two, <<lx.ch, l1.ch>>), l |-> l1]
    ELSE [tok |-> newToken(one, lx.ch), l |-> readChar(lx)]

TwoChar(lx, two, one) ==
    IF peekChar(lx) = "="
    THEN LET l1 == readChar(lx)
         IN  [tok |-> Token(two, <<lx.ch, l1.ch>>), l |-> readChar(l1)]
    ELSE [tok |-> newToken(one, lx.ch), l |-> readChar(lx)]

\* The single-character cases of NextToken's switch.
singleCharType ==
    ("+" :> PLUS) @@ ("-" :> MINUS) @@ ("*" :> ASTERISK) @@ ("/" :> SLASH) @@
    ("<" :> LT) @@ (">" :> GT) @@ ("," :> COMMA) @@ ("{" :> LBRACE) @@
    ("(" :> LPAREN) @@ ("}" :> RBRACE) @@ (")" :> RPAREN) @@
    (";" :> SEMICOLON)

\* The default case of NextToken's switch.
\* A variant whose identifier and number paths fall through to the final readChar.
DefaultCaseExtraAdvance(lx) ==
    IF isLetter(lx.ch)
    THEN LET r == readIdentifier(lx)
         IN  [tok |-> Token(LookupIdent(r.lit), r.lit), l |-> readChar(r.l)]
    ELSE IF isDigit(lx.ch)
    THEN LET r == readNumber(lx)
         IN  [tok |-> Token(INT, r.lit), l |-> readChar(r.l)]
    ELSE [tok |-> newToken(ILLEGAL, lx.ch), l |-> readChar(lx)]

DefaultCase(lx) ==
    IF isLetter(lx.ch)
    THEN LET r == readIdentifier(lx)
         IN  [tok |-> Token(LookupIdent(r.lit), r.lit), l |-> r.l]
    ELSE IF isDigit(lx.ch)
    THEN LET r == readNumber(lx)
         IN  [tok |-> Token(INT, r.lit), l |-> r.l]
    ELSE [tok |-> newToken(ILLEGAL, lx.ch), l |-> readChar(lx)]

\* func (l *Lexer) NextToken() token.Token: the token and the lexer after
NextToken(lx0) ==
    LET lx == skipWhitespace(lx0)
    IN  IF lx.ch = "=" THEN TwoChar(lx, EQ, ASSIGN)
        ELSE IF lx.ch = "!" THEN TwoChar(lx, NEQ, BANG)
        ELSE IF lx.ch \in DOMAIN singleCharType
        THEN [tok |-> newToken(singleCharType[lx.ch], lx.ch), l |-> readChar(lx)]
        ELSE IF lx.ch = NUL
        THEN [tok |-> Token(EOF, <<>>), l |-> readChar(lx)]
        ELSE DefaultCase(lx)

----------------------------------------------------------------------------
(* ast/ast.go: the nodes.  An absent node (a nil pointer or nil interface)  *)
(* is Nil.                                                                  *)

Nil == [node |-> "nil"]

Identifier(tok, value) ==
    [node |-> "Identifier", Token |-> tok, Value |-> value]

IntegerLiteral(tok, value) ==
    [node |-> "IntegerLiteral", Token |-> tok, Value |-> value]

PrefixExpression(tok, operator, right) ==
    [node |-> "PrefixExpression", Token |-> tok, Operator |-> operator,
     Right |-> right]

InfixExpression(tok, left, operator, right) ==
    [node |-> "InfixExpression", Token |-> tok, Left |-> left,
     Operator |-> operator, Right |-> right]

LetStatement(tok, name, value) ==
    [node |-> "LetStatement", Token |-> tok, Name |-> name, Value |-> value]

ReturnStatement(tok, returnValue) ==
    [node |-> "ReturnStatement", Token |-> tok, ReturnValue |-> returnValue]

ExpressionStatement(tok, expression) ==
    [node |-> "ExpressionStatement", Token |-> tok, Expression |-> expression]

\* What a call of String() on an absent operand leaves in place of a text:
\* the call dereferences nil and does not return.
NilDereference == <<"<nil dereference>">>

\* String() of every node type.
RECURSIVE String(_)
String(n) ==
    CASE n.node = "Identifier" -> n.Value
      [] n.node = "IntegerLiteral" -> n.Token.Literal
      [] n.node = "PrefixExpression" ->
            <<"(">> \o n.Operator \o String(n.Right) \o <<")">>
      [] n.node = "InfixExpression" ->
            <<"(">> \o String(n.Left) \o <<" ">> \o n.Operator \o <<" ">>
                \o String(n.Right) \o <<")">>
      [] n.node = "LetStatement" ->
            n.Token.Literal \o <<" ">> \o String(n.Name) \o <<" ", "=", " ">>
                \o (IF n.Value # Nil THEN String(n.Value) ELSE <<>>)
                \o <<";">>
      [] n.node = "ReturnStatement" ->
            n.Token.Literal \o <<" ">>
                \o (IF n.ReturnValue # Nil THEN String(n.ReturnValue) ELSE <<>>)
                \o <<";">>
      [] n.node = "ExpressionStatement" ->
            IF n.Expression # Nil THEN String(n.Expression) ELSE <<>>
      [] OTHER -> NilDereference

\* func (p *Program) String() string
RECURSIVE ProgramString(_)
ProgramString(statements) ==
    IF statements = <<>>
    THEN <<>>
    ELSE String(Head(statements)) \o ProgramString(Tail(statements))

----------------------------------------------------------------------------
(* strconv.ParseInt(s, 0, 64) as parseIntegerLiteral calls it, on the runs  *)
(* of ASCII digits readNumber produces.  An integer is written as the       *)
(* sequence of its decimal digits, most significant first, without leading  *)
(* zeros (0 is the empty sequence), so that the 64-bit range is exact.      *)

digitVal ==
    ("0" :> 0) @@ ("1" :> 1) @@ ("2" :> 2) @@ ("3" :> 3) @@ ("4" :> 4) @@
    ("5" :> 5) @@ ("6" :> 6) @@ ("7" :> 7) @@ ("8" :> 8) @@ ("9" :> 9)

\* n * m + c for a digit sequence n and small m, c
RECURSIVE MulAdd(_, _, _)
MulAdd(n, m, c) ==
    IF n = <<>>
    THEN IF c = 0 THEN <<>> ELSE <<c>>
    ELSE LET t == n[Len(n)] * m + c
         IN  MulAdd(SubSeq(n, 1, Len(n) - 1), m, t \div 10) \o <<t % 10>>

\* a <= b for digit sequences without leading zeros
RECURSIVE BigLeq(_, _)
BigLeq(a, b) ==
    IF Len(a) # Len(b) THEN Len(a) < Len(b)
    ELSE IF a = <<>> THEN TRUE
    ELSE IF a[1] # b[1] THEN a[1] < b[1]
    ELSE BigLeq(Tail(a), Tail(b))

\* 1<<63 - 1
MaxInt64 == <<9, 2, 2, 3, 3, 7, 2, 0, 3, 6, 8, 5, 4, 7, 7, 5, 8, 0, 7>>

\* The value of the digits s read in the given base.
RECURSIVE Accumulate(_, _, _)
Accumulate(n, s, base) ==
    IF s = <<>> THEN n
    ELSE Accumulate(MulAdd(n, base, digitVal[Head(s)]), Tail(s), base)

\* Base 0: a leading "0" followed by more digits selects base 8.
BaseOf(s) == IF Len(s) > 1 /\ s[1] = "0" THEN 8 ELSE 10

DigitsOf(s) == IF Len(s) > 1 /\ s[1] = "0" THEN Tail(s) ELSE s

\* strconv.ParseInt(s, 0, 64): the value and the error.  On a syntax error
\* the value is 0, on a range error the nearest bound of the range.
ParseInt(s) ==
    IF s = <<>> \/ \E i \in 1..Len(DigitsOf(s)) :
                       digitVal[DigitsOf(s)[i]] >= BaseOf(s)
    THEN [value |-> <<>>, err |-> "ErrSyntax"]
    ELSE LET v == Accumulate(<<>>, DigitsOf(s), BaseOf(s))
         IN  IF BigLeq(v, MaxInt64)
             THEN [value |-> v, err |-> "nil"]
             ELSE [value |-> MaxInt64, err |-> "ErrRange"]

----------------------------------------------------------------------------
(* parser/parser.go                                                        *)

LOWEST == 1
EQUALS == 2
LESSGREATER == 3
SUM == 4
PRODUCT == 5
PREFIX == 6
CALL == 7

\* var precedences = map[token.Type]int{...}
precedences ==
    (EQ :> EQUALS) @@ (NEQ :> EQUALS) @@ (LT :> LESSGREATER) @@
    (GT :> LESSGREATER) @@ (PLUS :> SUM) @@ (MINUS :> SUM) @@
    (SLASH :> PRODUCT) @@ (ASTERISK :> PRODUCT)

\* p.prefixParseFns after New: the registered function's name
prefixParseFns ==
    (IDENT :> "parseIdentifier") @@ (INT :> "parseIntegerLiteral") @@
    (BANG :> "parsePrefixExpression") @@ (MINUS :> "parsePrefixExpression")

\* A variant of New without registerInfix(token.PLUS, ...).
infixParseFnsWithoutPlus ==
    (MINUS :> "parseInfixExpression") @@
    (SLASH :> "parseInfixExpression") @@ (ASTERISK :> "parseInfixExpression") @@
    (EQ :> "parseInfixExpression") @@ (NEQ :> "parseInfixExpression") @@
    (LT :> "parseInfixExpression") @@ (GT :> "parseInfixExpression")

\* p.infixParseFns after New: the registered function's name
infixParseFns ==
    (PLUS :> "parseInfixExpression") @@ (MINUS :> "parseInfixExpression") @@
    (SLASH :> "parseInfixExpression") @@ (ASTERISK :> "parseInfixExpression") @@
    (EQ :> "parseInfixExpression") @@ (NEQ :> "parseInfixExpression") @@
    (LT :> "parseInfixExpression") @@ (GT :> "parseInfixExpression")

\* the zero value of token.Token
ZeroToken == Token("", <<>>)

\* A diagnostic: fmt.Sprintf(format, ...) with its token-type arguments and
\* its literal arguments.
Msg(format, types, literals) ==
    [format |-> format, types |-> types, literals |-> literals]

\* A variant that draws two tokens from the lexer and keeps the second.
nextTokenSkipping(ps) ==
    LET r == NextToken(NextToken(ps.l).l)
    IN  [ps EXCEPT !.curToken = ps.peekToken, !.peekToken = r.tok, !.l = r.l]

\* func (p *Parser) nextToken()
nextToken(ps) ==
    LET r == NextToken(ps.l)
    IN  [ps EXCEPT !.curToken = ps.peekToken, !.peekToken = r.tok, !.l = r.l]

\* func New(l *lexer.Lexer) *Parser
\* infixNil is a history field the Go struct does not have: whether
\* parseExpression's loop has ever returned at `if infix == nil`.
NewParser(lx) ==
    nextToken(nextToken([l |-> lx, curToken |-> ZeroToken,
                         peekToken |-> ZeroToken, errors |-> <<>>,
                         infixNil |-> FALSE]))

\* func (p *Parser) curTokenIs(t token.Type) bool
curTokenIs(ps, t) == ps.curToken.Type = t

\* func (p *Parser) peekTokenIs(t token.Type) bool
peekTokenIs(ps, t) == ps.peekToken.Type = t

\* func (p *Parser) peekError(t token.Type)
peekError(ps, t) ==
    [ps EXCEPT !.errors =
        Append(ps.errors,
               Msg("expected next token to be %s, got %s instead",
                   <<t, ps.peekToken.Type>>, <<>>))]

\* A variant that advances past the offending token when the check fails.
expectPeekConsuming(ps, t) ==
    IF peekTokenIs(ps, t)
    THEN [ok |-> TRUE, p |-> nextToken(ps)]
    ELSE [ok |-> FALSE, p |-> nextToken(peekError(ps, t))]

\* func (p *Parser) expectPeek(t token.Type) bool: the result and the parser after
expectPeek(ps, t) ==
    IF peekTokenIs(ps, t)
    THEN [ok |-> TRUE, p |-> nextToken(ps)]
    ELSE [ok |-> FALSE, p |-> peekError(ps, t)]

\* func (p *Parser) peekPrecedence() int
peekPrecedence(ps) ==
    IF ps.peekToken.Type \in DOMAIN precedences
    THEN precedences[ps.peekToken.Type]
    ELSE LOWEST

\* func (p *Parser) curPrecedence() int
curPrecedence(ps) ==
    IF ps.curToken.Type \in DOMAIN precedences
    THEN precedences[ps.curToken.Type]
    ELSE LOWEST

\* A variant that puts the new diagnostic in front of the earlier ones.
noPrefixParseFnErrorPrepend(ps, t) ==
    [ps EXCEPT !.errors =
        <<Msg("no prefix parse function for %s found", <<t>>, <<>>)>>
            \o ps.errors]

\* func (p *Parser) noPrefixParseFnError(t token.Type)
noPrefixParseFnError(ps, t) ==
    [ps EXCEPT !.errors =
        Append(ps.errors,
               Msg("no prefix parse function for %s found", <<t>>, <<>>))]

\* func (p *Parser) parseIdentifier() ast.Expression
parseIdentifier(ps) ==
    [p |-> ps, exp |-> Identifier(ps.curToken, ps.curToken.Literal)]

\* A variant that ignores the conversion's error.
parseIntegerLiteralUnchecked(ps) ==
    [p |-> ps,
     exp |-> IntegerLiteral(ps.curToken, ParseInt(ps.curToken.Literal).value)]

\* func (p *Parser) parseIntegerLiteral() ast.Expression
parseIntegerLiteral(ps) ==
    LET r == ParseInt(ps.curToken.Literal)
    IN  IF r.err # "nil"
        THEN [p |-> [ps EXCEPT !.errors =
                        Append(ps.errors,
                               Msg("could not parse %q as integer", <<>>,
                                   <<ps.curToken.Literal>>))],
              exp |-> Nil]
        ELSE [p |-> ps, exp |-> IntegerLiteral(ps.curToken, r.value)]

RECURSIVE parseExpression(_, _)
RECURSIVE parsePrefixExpression(_)
RECURSIVE parseInfixExpression(_, _)
RECURSIVE infixLoop(_, _, _)

\* func (p *Parser) parsePrefixExpression() ast.Expression
parsePrefixExpression(ps) ==
    LET r == parseExpression(nextToken(ps), PREFIX)
    IN  [p |-> r.p,
         exp |-> PrefixExpression(ps.curToken, ps.curToken.Literal, r.exp)]

\* A variant that parses the right operand one level lower, so that an
\* operator of equal precedence to the right is absorbed.
parseInfixExpressionRightAssoc(ps, left) ==
    LET r == parseExpression(nextToken(ps), curPrecedence(ps) - 1)
    IN  [p |-> r.p,
         exp |-> InfixExpression(ps.curToken, left, ps.curToken.Literal, r.exp)]

\* func (p *Parser) parseInfixExpression(left ast.Expression) ast.Expression
parseInfixExpression(ps, left) ==
    LET precedence == curPrecedence(ps)
        r == parseExpression(nextToken(ps), precedence)
    IN  [p |-> r.p,
         exp |-> InfixExpression(ps.curToken, left, ps.curToken.Literal, r.exp)]

\* prefix := p.prefixParseFns[p.curToken.Type]; prefix()
callPrefix(fn, ps) ==
    CASE fn = "parseIdentifier" -> parseIdentifier(ps)
      [] fn = "parseIntegerLiteral" -> parseIntegerLiteral(ps)
      [] fn = "parsePrefixExpression" -> parsePrefixExpression(ps)

\* the for loop of parseExpression
infixLoop(ps, precedence, leftExp) ==
    IF ~peekTokenIs(ps, SEMICOLON) /\ precedence < peekPrecedence(ps)
    THEN IF ps.peekToken.Type \notin DOMAIN infixParseFns
         THEN [p |-> [ps EXCEPT !.infixNil = TRUE], exp |-> leftExp]
         ELSE LET r == parseInfixExpression(nextToken(ps), leftExp)
              IN  infixLoop(r.p, precedence, r.exp)
    ELSE [p |-> ps, exp |-> leftExp]

\* func (p *Parser) parseExpression(precedence int) ast.Expression
parseExpression(ps, precedence) ==
    IF ps.curToken.Type \notin DOMAIN prefixParseFns
    THEN [p |-> noPrefixParseFnError(ps, ps.curToken.Type), exp |-> Nil]
    ELSE LET r == callPrefix(prefixParseFns[ps.curToken.Type], ps)
         IN  infixLoop(r.p, precedence, r.exp)

\* func (p *Parser) parseExpressionStatement() *ast.ExpressionStatement
parseExpressionStatement(ps) ==
    LET r == parseExpression(ps, LOWEST)
    IN  [p |-> IF peekTokenIs(r.p, SEMICOLON) THEN nextToken(r.p) ELSE r.p,
         stmt |-> ExpressionStatement(ps.curToken, r.exp)]

\* func (p *Parser) parseLetStatement(), up to its loop: the statement so far
\* (Nil where the function returns nil) and whether the loop is entered.
parseLetStatementHead(ps) ==
    LET r1 == expectPeek(ps, IDENT)
        name == Identifier(r1.p.curToken, r1.p.curToken.Literal)
        r2 == expectPeek(r1.p, ASSIGN)
    IN  IF ~r1.ok THEN [p |-> r1.p, stmt |-> Nil, ok |-> FALSE]
        ELSE IF ~r2.ok THEN [p |-> r2.p, stmt |-> Nil, ok |-> FALSE]
        ELSE [p |-> r2.p, stmt |-> LetStatement(ps.curToken, name, Nil),
              ok |-> TRUE]

----------------------------------------------------------------------------
(* The bounds of the model and the texts it is run on.                     *)

MaxLen == 4      \* bytes of a text given to the lexer alone
MaxExtra == 3    \* NextToken calls made beyond one per byte
MaxToks == 4     \* lexemes of a program text
MaxExprToks == 5 \* lexemes of an expression text
MaxTail == 2     \* digits appended to a long integer literal
MaxSpin == 3     \* bytes past the end of the text a statement loop may read

LexAlphabet == {"f", "n", "_", "5", "=", "!", " ", NUL}

RECURSIVE Flatten(_)
Flatten(ss) == IF ss = <<>> THEN <<>> ELSE Head(ss) \o Flatten(Tail(ss))

SeqsUpTo(S, n) == UNION {[1..k -> S] : k \in 0..n}

LexInputs == SeqsUpTo(LexAlphabet, MaxLen)

Lexemes ==
    {<<"l", "e", "t", " ">>, <<"r", "e", "t", "u", "r", "n", " ">>,
     <<"x">>, <<"5">>, <<"=">>, <<";">>, <<"+">>, <<"!">>}

ProgramInputs == {Flatten(ss) : ss \in SeqsUpTo(Lexemes, MaxToks)}

ExprLexemes ==
    {<<"a">>, <<"-">>, <<"*">>, <<"<">>, <<"=", "=">>, <<"!">>}

ExprInputs == {Flatten(ss) : ss \in SeqsUpTo(ExprLexemes, MaxExprToks)}

\* 1<<63 - 1 without its last digit, and 1<<63 - 1 in base 8 without its
\* last digit.
LongDecimal ==
    <<"9", "2", "2", "3", "3", "7", "2", "0", "3", "6", "8", "5", "4", "7",
      "7", "5", "8", "0">>

LongOctal ==
    <<"0", "7", "7", "7", "7", "7", "7", "7", "7", "7", "7", "7", "7", "7",
      "7", "7", "7", "7", "7", "7", "7">>

IntInputs ==
    {pre \o tail : pre \in {<<>>, <<"0">>, LongDecimal, LongOctal},
                   tail \in SeqsUpTo({"0", "7", "8"}, MaxTail)}

----------------------------------------------------------------------------
(* The state machine.                                                      *)

NoParser ==
    [l |-> ZeroLexer(<<>>), curToken |-> ZeroToken, peekToken |-> ZeroToken,
     errors |-> <<>>, infixNil |-> FALSE]

\* The lexer alone: lexer.New(input), then repeated NextToken calls.
InitLex ==
    /\ \E input \in LexInputs : l = NewLexer(input)
    /\ toks = <<>>
    /\ p = NoParser
    /\ program = <<>>
    /\ stmt = Nil
    /\ pc = "lex"
    /\ phase = 0
    /\ first = <<>>

LexNext ==
    /\ pc = "lex"
    /\ Len(toks) < Len(l.input) + MaxExtra
    /\ LET r == NextToken(l)
       IN  /\ l' = r.l
           /\ toks' = Append(toks, r.tok)
    /\ UNCHANGED <<p, program, stmt, pc, phase, first>>

\* parser.New(lexer.New(input)) and the first two statements of ParseProgram.
InitParser(inputs) ==
    /\ \E input \in inputs : p = NewParser(NewLexer(input))
    /\ l = ZeroLexer(<<>>)
    /\ toks = <<>>
    /\ program = <<>>
    /\ stmt = Nil
    /\ pc = "loop"
    /\ phase = 1
    /\ first = <<>>

Init == InitParser(ProgramInputs)

InitExpr == InitParser(ExprInputs)

InitInt == InitParser(IntInputs)

\* ParseProgram's loop condition fails: return program.
ReturnProgram ==
    /\ pc = "loop"
    /\ curTokenIs(p, EOF)
    /\ pc' = "done"
    /\ UNCHANGED <<l, toks, p, program, stmt, phase, first>>

\* parseStatement, case token.LET: parseLetStatement up to its loop.
ParseLet ==
    /\ pc = "loop"
    /\ ~curTokenIs(p, EOF)
    /\ p.curToken.Type = LET_
    /\ LET r == parseLetStatementHead(p)
       IN  /\ p' = r.p
           /\ stmt' = r.stmt
           /\ pc' = IF r.ok THEN "letLoop" ELSE "advance"
    /\ UNCHANGED <<l, toks, program, phase, first>>

\* parseStatement, case token.RETURN: parseReturnStatement up to its loop.
ParseReturn ==
    /\ pc = "loop"
    /\ ~curTokenIs(p, EOF)
    /\ p.curToken.Type = RETURN
    /\ p' = nextToken(p)
    /\ stmt' = ReturnStatement(p.curToken, Nil)
    /\ pc' = "returnLoop"
    /\ UNCHANGED <<l, toks, program, phase, first>>

\* parseStatement, default: parseExpressionStatement.
ParseExpressionStatement ==
    /\ pc = "loop"
    /\ ~curTokenIs(p, EOF)
    /\ p.curToken.Type \notin {LET_, RETURN}
    /\ LET r == parseExpressionStatement(p)
       IN  /\ p' = r.p
           /\ stmt' = r.stmt
    /\ pc' = "advance"
    /\ UNCHANGED <<l, toks, program, phase, first>>

\* One test of `for !p.curTokenIs(token.SEMICOLON) { p.nextToken() }` in
\* parseLetStatement or parseReturnStatement, with the body or the return
\* that follows it.  The loop never ends by itself past the end of the text;
\* MaxSpin stops the model there.
LoopStep ==
    IF curTokenIs(p, SEMICOLON)
    THEN /\ pc' = "advance"
         /\ UNCHANGED p
    ELSE /\ p.l.readPosition <= Len(p.l.input) + MaxSpin
         /\ p' = nextToken(p)
         /\ UNCHANGED pc

LetLoop ==
    /\ pc = "letLoop"
    /\ LoopStep
    /\ UNCHANGED <<l, toks, program, stmt, phase, first>>

ReturnLoop ==
    /\ pc = "returnLoop"
    /\ LoopStep
    /\ UNCHANGED <<l, toks, program, stmt, phase, first>>

\* The rest of ParseProgram's loop body after parseStatement returned.
Advance ==
    /\ pc = "advance"
    /\ program' = IF stmt # Nil THEN Append(program, stmt) ELSE program
    /\ p' = nextToken(p)
    /\ stmt' = Nil
    /\ pc' = "loop"
    /\ UNCHANGED <<l, toks, phase, first>>

\* The round trip: render the Program that parsed without diagnostics and
\* parse the rendering with a new lexer and parser.
Reparse ==
    /\ pc = "done"
    /\ phase = 1
    /\ p.errors = <<>>
    /\ first' = ProgramString(program)
    /\ p' = NewParser(NewLexer(ProgramString(program)))
    /\ program' = <<>>
    /\ stmt' = Nil
    /\ pc' = "loop"
    /\ phase' = 2
    /\ UNCHANGED <<l, toks>>

NextLex == LexNext

Next ==
    \/ ReturnProgram
    \/ ParseLet
    \/ ParseReturn
    \/ ParseExpressionStatement
    \/ LetLoop
    \/ ReturnLoop
    \/ Advance

NextExpr ==
    \/ ReturnProgram
    \/ ParseExpressionStatement
    \/ Advance

NextRoundTrip == Next \/ Reparse

SpecLex == InitLex /\ [][NextLex]_vars

Spec == Init /\ [][Next]_vars

SpecExpr == InitExpr /\ [][NextExpr]_vars

SpecInt == InitInt /\ [][NextExpr]_vars

SpecRoundTrip == Init /\ [][NextRoundTrip]_vars

----------------------------------------------------------------------------
(* The text as the claims about the lexer read it.                         *)

IsSpace(c) == c \in {" ", "\t", "\n", "\r"}

\* The byte at index i (from 0) of the text, NUL past its end.
ByteAt(input, i) == IF i < Len(input) THEN input[i + 1] ELSE NUL

Later(a, b) == IF a > b THEN a ELSE b

\* The index of the first byte at or after the cursor that is no whitespace.
TokenStart(lx) ==
    CHOOSE i \in lx.position..Later(lx.position, Len(lx.input)) :
        /\ ~IsSpace(ByteAt(lx.input, i))
        /\ \A j \in lx.position..(i - 1) : IsSpace(ByteAt(lx.input, j))

\* The index just after the maximal run of bytes of a class that starts at
\* index start.
RunEnd(input, start, InClass(_)) ==
    CHOOSE j \in start..Later(start, Len(input)) :
        /\ ~InClass(ByteAt(input, j))
        /\ \A k \in start..(j - 1) : InClass(ByteAt(input, k))

LastToken == toks'[Len(toks')]

\* The cursor rests on the byte at index i, which is the next byte read.
CursorAt(lx, i) ==
    /\ lx.position = i
    /\ lx.readPosition = i + 1
    /\ lx.ch = ByteAt(lx.input, i)

(* C2: for every text, NUL bytes inside it included, the tokens returned   *)
(* are at most len(input) non-EOF tokens followed only by EOF tokens with  *)
(* an empty literal: once EOF was returned, every later token is EOF.      *)
C2_EOFIsFinal ==
    /\ Cardinality({i \in 1..Len(toks) : toks[i].Type # EOF}) <= Len(l.input)
    /\ \A i \in 1..Len(toks) :
          toks[i].Type = EOF =>
              /\ toks[i].Literal = <<>>
              /\ \A j \in i..Len(toks) : toks[j].Type = EOF

(* C9: on '=' or '!' NextToken looks at the following byte: when it is '=' *)
(* both bytes are consumed and the token is == or != with the two-byte     *)
(* literal; otherwise one byte is consumed and the token is = or !, and    *)
(* the following byte is the next one read.                                *)
C9_TwoCharOperators ==
    [][LexNext =>
        LET i == TokenStart(l)
            c == ByteAt(l.input, i)
        IN  c \in {"=", "!"} =>
                IF ByteAt(l.input, i + 1) = "="
                THEN /\ LastToken =
                            Token(IF c = "=" THEN EQ ELSE NEQ, <<c, "=">>)
                     /\ CursorAt(l', i + 2)
                ELSE /\ LastToken =
                            Token(IF c = "=" THEN ASSIGN ELSE BANG, <<c>>)
                     /\ CursorAt(l', i + 1)]_vars

\* "===" was read as EQ then ASSIGN.
C9_Witness ==
    /\ l.input = <<"=", "=", "=">>
    /\ toks = <<Token(EQ, <<"=", "=">>), Token(ASSIGN, <<"=">>)>>

(* C10: on a letter or underscore (or a digit) NextToken returns one token *)
(* whose literal is the maximal run of letters and underscores (of         *)
(* digits) starting there; it is a keyword exactly when the whole literal  *)
(* is a key of the keyword table, IDENT otherwise (INT for digits); and    *)
(* the cursor is left on the first byte after the run.                     *)
C10_IdentifiersAndNumbers ==
    [][LexNext =>
        LET i == TokenStart(l)
            c == ByteAt(l.input, i)
            tok == LastToken
        IN  /\ isLetter(c) =>
                LET j == RunEnd(l.input, i, isLetter)
                IN  /\ tok.Literal = SubSeq(l.input, i + 1, j)
                    /\ tok.Literal \in DOMAIN keywords
                          => tok.Type = keywords[tok.Literal]
                    /\ tok.Literal \notin DOMAIN keywords => tok.Type = IDENT
                    /\ CursorAt(l', j)
            /\ isDigit(c) =>
                LET j == RunEnd(l.input, i, isDigit)
                IN  /\ tok.Literal = SubSeq(l.input, i + 1, j)
                    /\ tok.Type = INT
                    /\ CursorAt(l', j)]_vars

\* "fn5" was read as the keyword fn, then the number 5.
C10_Witness ==
    /\ l.input = <<"f", "n", "5">>
    /\ toks = <<Token(FUNCTION, <<"f", "n">>), Token(INT, <<"5">>)>>

----------------------------------------------------------------------------
(* The claims about the parser.                                            *)

IsPrefixOf(a, b) == Len(a) <= Len(b) /\ SubSeq(b, 1, Len(a)) = a

InStatementLoop(c) == c \in {"letLoop", "returnLoop"}

(* C1: ParseProgram terminates for every text: when a let statement (after *)
(* its '=') or a return statement is followed by no ';' before the end of  *)
(* the text, the loop that looks for the ';' ends once the current token   *)
(* is EOF.                                                                 *)
C1_LoopEndsAtEOF ==
    [][(InStatementLoop(pc) /\ curTokenIs(p, EOF)) => ~InStatementLoop(pc')]_vars

HasPrefixRule(type) == type \in DOMAIN prefixParseFns

(* C4: when an expression statement starts at a token without a prefix     *)
(* rule, or at a unary operator whose operand starts at such a token, the  *)
(* statement ends up with no expression and exactly one diagnostic         *)
(* "no prefix parse function for <kind> found" is appended.                *)
C4_NoPrefixRule ==
    [][ParseExpressionStatement =>
        /\ ~HasPrefixRule(p.curToken.Type) =>
              /\ stmt'.Expression = Nil
              /\ p'.errors =
                    Append(p.errors,
                           Msg("no prefix parse function for %s found",
                               <<p.curToken.Type>>, <<>>))
        /\ (p.curToken.Type \in {BANG, MINUS}
                /\ ~HasPrefixRule(p.peekToken.Type)) =>
              /\ stmt'.Expression = Nil
              /\ p'.errors =
                    Append(p.errors,
                           Msg("no prefix parse function for %s found",
                               <<p.peekToken.Type>>, <<>>))]_vars

Expected(ps, t) ==
    [ps EXCEPT !.errors =
        Append(ps.errors,
               Msg("expected next token to be %s, got %s instead",
                   <<t, ps.peekToken.Type>>, <<>>))]

C7_Recoverable ==
    [][/\ IsPrefixOf(p.errors, p.errors')
       /\ IsPrefixOf(program, program')
       /\ (p.errors' # p.errors \/ (pc = "loop" /\ stmt' = Nil /\ pc' # "done"))
              => pc' = "advance"
       /\ pc = "advance" => (pc' = "loop" /\ p'.errors = p.errors)
       /\ pc' = "done" => (program' = program /\ p' = p)]_vars

\* Two statements failed in turn, a third was parsed and the Program was
\* returned with it.
C7_Witness ==
    /\ pc = "done"
    /\ Len(p.errors) = 2
    /\ p.errors[1] # p.errors[2]
    /\ Len(program) = 1
    /\ program[1].Expression # Nil

----------------------------------------------------------------------------
(* The reference grammar of C3, as a recursive descent over the tokens     *)
(* with one rule per level of the ladder:                                  *)
(*   level 1 (EQUALS):      level2 (("==" | "!=") level2)*                 *)
(*   level 2 (LESSGREATER): level3 (("<" | ">") level3)*                   *)
(*   level 3 (SUM):         level4 (("+" | "-") level4)*                   *)
(*   level 4 (PRODUCT):     unary (("*" | "/") unary)*                     *)
(*   unary (PREFIX):        ("!" | "-") unary | IDENT | INT                *)

RefOps(k) ==
    CASE k = 1 -> {EQ, NEQ}
      [] k = 2 -> {LT, GT}
      [] k = 3 -> {PLUS, MINUS}
      [] k = 4 -> {ASTERISK, SLASH}

RefFail == [ok |-> FALSE, tree |-> Nil, next |-> 0]

RECURSIVE RefUnary(_, _)
RefUnary(ts, i) ==
    IF i > Len(ts) THEN RefFail
    ELSE IF ts[i].Type \in {BANG, MINUS}
    THEN LET r == RefUnary(ts, i + 1)
         IN  IF r.ok
             THEN [ok |-> TRUE,
                   tree |-> PrefixExpression(ts[i], ts[i].Literal, r.tree),
                   next |-> r.next]
             ELSE RefFail
    ELSE IF ts[i].Type = IDENT
    THEN [ok |-> TRUE, tree |-> Identifier(ts[i], ts[i].Literal),
          next |-> i + 1]
    ELSE IF ts[i].Type = INT /\ ParseInt(ts[i].Literal).err = "nil"
    THEN [ok |-> TRUE,
          tree |-> IntegerLiteral(ts[i], ParseInt(ts[i].Literal).value),
          next |-> i + 1]
    ELSE RefFail

RECURSIVE RefLevel(_, _, _)
RECURSIVE RefRest(_, _, _, _)
RefLevel(ts, i, k) ==
    IF k > 4 THEN RefUnary(ts, i)
    ELSE LET r == RefLevel(ts, i, k + 1)
         IN  IF r.ok THEN RefRest(ts, r.next, k, r.tree) ELSE RefFail

\* the repetition of level k: the operators nest to the left
RefRest(ts, i, k, left) ==
    IF i <= Len(ts) /\ ts[i].Type \in RefOps(k)
    THEN LET r == RefLevel(ts, i + 1, k + 1)
         IN  IF r.ok
             THEN RefRest(ts, r.next, k,
                          InfixExpression(ts[i], left, ts[i].Literal, r.tree))
             ELSE RefFail
    ELSE [ok |-> TRUE, tree |-> left, next |-> i]

RefParse(ts) == RefLevel(ts, 1, 1)

WellFormed(ts) == RefParse(ts).ok /\ RefParse(ts).next = Len(ts) + 1

\* The tokens the lexer has yet to return, up to the first EOF.
RECURSIVE LexAll(_)
LexAll(lx) ==
    LET r == NextToken(lx)
    IN  IF r.tok.Type = EOF THEN <<>> ELSE <<r.tok>> \o LexAll(r.l)

RECURSIVE UpToTerminator(_)
UpToTerminator(ts) ==
    IF ts = <<>> \/ Head(ts).Type \in {SEMICOLON, EOF}
    THEN <<>>
    ELSE <<Head(ts)>> \o UpToTerminator(Tail(ts))

\* The tokens of the statement that starts at the current token.
StatementTokens(ps) ==
    UpToTerminator(<<ps.curToken, ps.peekToken>> \o LexAll(ps.l))

(* C3: for every well-formed expression of identifier and integer          *)
(* operands, unary ! and - and the binary operators, parseExpression       *)
(* (LOWEST) builds the tree of the reference grammar with the ladder       *)
(* EQUALS < LESSGREATER < SUM < PRODUCT < PREFIX: equal precedence nests   *)
(* to the left, a higher precedence to the right takes the shared operand, *)
(* a unary operator takes only the operand right after it.                 *)
C3_PrecedenceAndAssociativity ==
    [][ParseExpressionStatement =>
        LET ts == StatementTokens(p)
        IN  WellFormed(ts) =>
                /\ stmt'.Expression = RefParse(ts).tree
                /\ p'.errors = p.errors]_vars

\* "a-a*a" was parsed as (a - (a * a)).
C3_Witness ==
    /\ pc = "advance"
    /\ p.l.input = <<"a", "-", "a", "*", "a">>
    /\ p.errors = <<>>
    /\ String(stmt) =
          <<"(", "a", " ", "-", " ", "(", "a", " ", "*", " ", "a", ")", ")">>

(* C5: for every text that parses with no diagnostics, rendering the       *)
(* Program with String() and parsing the rendering again yields a Program  *)
(* with no diagnostics whose rendering is identical to the first.          *)
C5_RoundTrip ==
    (phase = 2 /\ pc = "done") =>
        /\ p.errors = <<>>
        /\ ProgramString(program) = first

\* The digits after the base prefix, without leading zeros.
RECURSIVE Significant(_)
Significant(s) ==
    IF s # <<>> /\ Head(s) = "0" THEN Significant(Tail(s)) ELSE s

IsOctalLiteral(s) == Len(s) > 1 /\ s[1] = "0"

\* The literal denotes an integer of the signed 64-bit range: in base 8 at
\* most 21 significant digits (8^21 = 2^63), in base 10 at most 1<<63 - 1.
Convertible(s) ==
    IF IsOctalLiteral(s)
    THEN /\ \A i \in 1..Len(s) : s[i] \notin {"8", "9"}
         /\ Len(Significant(s)) <= 21
    ELSE BigLeq([i \in 1..Len(Significant(s)) |-> digitVal[Significant(s)[i]]],
                MaxInt64)

\* The integer the literal denotes.
ExactValue(s) ==
    IF IsOctalLiteral(s)
    THEN Accumulate(<<>>, Tail(s), 8)
    ELSE [i \in 1..Len(Significant(s)) |-> digitVal[Significant(s)[i]]]

(* C8: parseIntegerLiteral converts the literal (a run of ASCII digits) to *)
(* a 64-bit signed integer and returns an IntegerLiteral holding that      *)
(* value; when the text cannot be converted it appends exactly one         *)
(* diagnostic "could not parse <literal> as integer" and returns no        *)
(* expression; it never returns a wrapped or truncated value.              *)
C8_IntegerLiteral ==
    [][(ParseExpressionStatement /\ p.curToken.Type = INT
            /\ StatementTokens(p) = <<p.curToken>>) =>
        LET lit == p.curToken.Literal
        IN  IF Convertible(lit)
            THEN /\ stmt'.Expression =
                        IntegerLiteral(p.curToken, ExactValue(lit))
                 /\ BigLeq(stmt'.Expression.Value, MaxInt64)
                 /\ p'.errors = p.errors
            ELSE /\ stmt'.Expression = Nil
                 /\ p'.errors =
                        Append(p.errors,
                               Msg("could not parse %q as integer", <<>>,
                                   <<lit>>))]_vars

\* 9223372036854775808 = 1<<63 was refused with one diagnostic.
C8_Witness ==
    /\ pc = "advance"
    /\ stmt.node = "ExpressionStatement"
    /\ stmt.Token.Literal = LongDecimal \o <<"8">>
    /\ stmt.Expression = Nil
    /\ p.errors = <<Msg("could not parse %q as integer", <<>>,
                        <<LongDecimal \o <<"8">>>>)>>

----------------------------------------------------------------------------
(* The token sequence of the scanner, as the claims about the parser's     *)
(* buffer read it: what lexer.New(input) returns call after call.          *)

\* The scanner followed call by call from lx until it is the lexer target:
\* the number of calls that takes, the token of the last call (peek) and
\* the token of the call before it (cur).  Every call moves readPosition on,
\* so a lexer that is past the target's readPosition never becomes it: the
\* answer is then 0 calls.
RECURSIVE Drawn(_, _, _, _, _)
Drawn(lx, target, cur, peek, n) ==
    IF lx = target
    THEN [calls |-> n, cur |-> cur, peek |-> peek]
    ELSE IF lx.readPosition >= target.readPosition
         THEN [calls |-> 0, cur |-> ZeroToken, peek |-> ZeroToken]
         ELSE LET r == NextToken(lx)
              IN  Drawn(r.l, target, peek, r.tok, n + 1)

\* Where the parser's lexer stands in the token sequence of lexer.New(input).
Scanner(ps) == Drawn(NewLexer(ps.l.input), ps.l, ZeroToken, ZeroToken, 0)

\* The parser's lexer has made s.calls >= 2 calls, lookahead is the token of
\* the last one and current the token of the one before it.
BufferIs(ps, s) ==
    /\ s.calls >= 2
    /\ ps.peekToken = s.peek
    /\ ps.curToken = s.cur

(* C11: after New, current is the scanner's first token and lookahead its  *)
(* second; every advance makes the old lookahead current and draws one new *)
(* token into lookahead.  So in every parser state lookahead is the        *)
(* scanner token right after current, and the values of current run        *)
(* through the scanner's token sequence in order: none is skipped,         *)
(* repeated or revisited.                                                  *)
C11_TwoTokenBuffer ==
    /\ BufferIs(p, Scanner(p)) /\ Scanner(p).calls = 2
    /\ [][LET s == Scanner(p)
              t == Scanner(p')
          IN  /\ BufferIs(p, s) /\ BufferIs(p', t)
              /\ s.calls <= t.calls
              /\ Advance => t.calls = s.calls + 1
              /\ (LetLoop \/ ReturnLoop) => t.calls \in {s.calls, s.calls + 1}]_vars

\* "x;x": the first statement is in the Program and ParseProgram's advance
\* has made x current and drawn the EOF, the scanner's fourth token.
C11_Witness ==
    /\ pc = "loop"
    /\ Len(program) = 1
    /\ p.l.input = <<"x", ";", "x">>
    /\ p.curToken = Token(IDENT, <<"x">>)
    /\ p.peekToken.Type = EOF
    /\ Scanner(p).calls = 4

----------------------------------------------------------------------------
(* Operator nodes of a tree.                                               *)

\* The sub-trees a node owns, absent ones included.
Children(n) ==
    CASE n.node = "PrefixExpression" -> {n.Right}
      [] n.node = "InfixExpression" -> {n.Left, n.Right}
      [] n.node = "LetStatement" -> {n.Name, n.Value}
      [] n.node = "ReturnStatement" -> {n.ReturnValue}
      [] n.node = "ExpressionStatement" -> {n.Expression}
      [] OTHER -> {}

\* The node and everything below it.
RECURSIVE Nodes(_)
Nodes(n) == {n} \cup UNION {Nodes(c) : c \in Children(n)}

\* The nodes of the statement in hand and of the statements appended so far.
TreeNodes == Nodes(stmt) \cup UNION {Nodes(program[i]) : i \in DOMAIN program}

\* The kinds peekPrecedence answers above LOWEST for.
AboveLowest == {t \in DOMAIN precedences : precedences[t] > LOWEST}

(* C12: the token kinds with a precedence above LOWEST are exactly the     *)
(* kinds with a registered infix rule; parseExpression's loop never        *)
(* returns at `infix == nil`; and no InfixExpression is built on a token   *)
(* kind without an infix rule.                                             *)
C12_InfixLookupNeverEmpty ==
    /\ AboveLowest = DOMAIN infixParseFns
    /\ ~p.infixNil
    /\ \A n \in TreeNodes :
           n.node = "InfixExpression" => n.Token.Type \in DOMAIN infixParseFns

\* "x+x=": the loop of parseExpression took `+` through its infix rule and
\* stopped before `=`, a kind without one, which stays in lookahead.
C12_Witness ==
    /\ pc = "advance"
    /\ p.l.input = <<"x", "+", "x", "=">>
    /\ stmt.node = "ExpressionStatement"
    /\ stmt.Expression.node = "InfixExpression"
    /\ stmt.Expression.Token.Type = PLUS
    /\ p.peekToken.Type = ASSIGN
    /\ ~p.infixNil

----------------------------------------------------------------------------
\* The operator node has every operand it owns.
OperandsPresent(n) ==
    /\ n.node = "PrefixExpression" => n.Right # Nil
    /\ n.node = "InfixExpression" => n.Left # Nil /\ n.Right # Nil

(* C13: every PrefixExpression and InfixExpression in the Program that     *)
(* ParseProgram returns has its operands (Right, and Left for an infix),   *)
(* so that rendering the Program dereferences no absent sub-expression.    *)
C13_OperandsPresent ==
    pc = "done" =>
        /\ \A i \in DOMAIN program :
               \A n \in Nodes(program[i]) : OperandsPresent(n)
        /\ \A k \in DOMAIN ProgramString(program) :
               ProgramString(program)[k] # NilDereference[1]

====
